---- MODULE Spec2Model ----
(***************************************************************************)
(* CarEngineSim: the Engine (src/Engine.py) and Gearbox (src/Gearbox.py)   *)
(* simulation state machine and the driving loop of src/main.py.           *)
(*                                                                         *)
(* Number representation.  The Python fields are ints and floats; the      *)
(* model keeps them as integers in fixed units:                            *)
(*   throttle                 tenths            (10  = 1.0)                *)
(*   gear ratios              thousandths       (3545 = 3.545)             *)
(*   increase_rate            millionths        (53175 = 0.053175)         *)
(*   current_rpm              whole rpm                                    *)
(*   current_torque_nm        thousandths of a N.m                         *)
(*   current_hp               thousandths of a hp                          *)
(*   clock, clutch_response_time   milliseconds                            *)
(* A float RPM step is a non-zero real whenever its factors are non-zero,  *)
(* so the per-tick change of current_rpm is rounded to a whole rpm AWAY    *)
(* from zero (RoundAway): quantisation never swallows a step the float     *)
(* arithmetic would make.  Torque and horsepower are rounded down.         *)
(* Every intermediate product stays below 2^31.                            *)
(***************************************************************************)
EXTENDS Integers, Sequences, FiniteSets, TLC

VARIABLES
    \* Engine, static specification (Engine.__init__, lines 21-29)
    max_rpm, max_horsepower, max_torque_nm, peak_torque_rpm, clutch_response_time,
    \* Engine, simulation data (Engine.__init__, lines 32-41)
    current_hp, current_torque_nm, current_rpm, throttle, increase_rate,
    current_gear_ratio, clutched, clutched_timestamp,
    \* Gearbox (Gearbox.__init__, lines 10-13)
    gear_ratios, current_gear, tire_radius_meters, final_drive_ratio,
    \* environment: the clock datetime.now() reads, the outcome of the last
    \* call, main()'s position and locals, and the tire-size descriptor the
    \* caller hands to Gearbox.__init__
    now, outcome, pc, slider_value, speed_kph, tire_size

engineStatic == <<max_rpm, max_horsepower, max_torque_nm, peak_torque_rpm, clutch_response_time>>
engineLive   == <<current_hp, current_torque_nm, current_rpm, throttle, increase_rate,
                  current_gear_ratio, clutched, clutched_timestamp>>
gearboxVars  == <<gear_ratios, current_gear, tire_radius_meters, final_drive_ratio>>
mainVars     == <<pc, slider_value, speed_kph, tire_size>>
vars == <<engineStatic, engineLive, gearboxVars, now, outcome, mainVars>>

----------------------------------------------------------------------------
(* Bounds of the model *)

\* largest clock advance, in ms, between two reads of datetime.now()
MaxDt == 1

\* tolerance, in rpm, within which a limit counts as reached
Tol == 1

\* longest tire-size descriptor handed to Gearbox.__init__, in characters
MaxDescriptorLen == 6

(* Program constants *)

\* idle RPM: the initial current_rpm and the floor of the decay branch
IdleRpm == 700

\* self.base_increase_rate = 0.03, in thousandths
base_increase_rate == 30

\* Python's None, and a present value
None == <<>>
Some(x) == <<x>>
Val(o) == o[1]

----------------------------------------------------------------------------
(* Inputs *)

\* static engine specifications handed to Engine.__init__ (no validation there)
Engines ==
    { [max_rpm |-> 1000, max_horsepower |-> 12, max_torque_nm |-> 120,
       peak_torque_rpm |-> 800, clutch_response_time |-> 1],
      [max_rpm |-> 900, max_horsepower |-> 91, max_torque_nm |-> 50,
       peak_torque_rpm |-> 900, clutch_response_time |-> 2],
      [max_rpm |-> 500, max_horsepower |-> 91, max_torque_nm |-> 120,
       peak_torque_rpm |-> 400, clutch_response_time |-> 0] }

\* the engine main() builds (main.py line 101)
MainEngine ==
    [max_rpm |-> 5500, max_horsepower |-> 91, max_torque_nm |-> 120,
     peak_torque_rpm |-> 4800, clutch_response_time |-> 1]

\* the gearbox main() builds (main.py line 103): ratios, the tire-size
\* descriptor as its sequence of characters and its rim diameter in inches,
\* final drive ratio in thousandths
MainGearRatios == <<3545, 1913, 1310, 1027, 850>>
MainTireSize == <<"1", "9", "5", "/", "5", "5", "R", "1", "6">>
MainRimDiameter == 16
MainFinalDrive == 4294

\* the characters tire-size descriptors are made of, and the descriptors
Chars == {"1", "6", "/", "R", "-", " "}
Descriptors == UNION { [1..n -> Chars] : n \in 0..MaxDescriptorLen }

\* the ratio table of the gearbox the callers of Spec drive
GearRatios == <<3545, 1027, 850>>

\* throttle values a caller writes, in tenths
ThrottleSet == {0, 5, 10}

\* pointer positions main() is driven with, in tenths of the slider width
\* from its left end (-3 lies outside the slider)
SliderSet == {-3, 0, 10}

----------------------------------------------------------------------------
(* Arithmetic helpers *)

\* n / d rounded to an integer away from zero (d > 0)
RoundAway(n, d) ==
    IF n >= 0 THEN (n + d - 1) \div d ELSE -((d - n - 1) \div d)

Abs(x) == IF x >= 0 THEN x ELSE -x
Max(a, b) == IF a >= b THEN a ELSE b
Min(a, b) == IF a <= b THEN a ELSE b

----------------------------------------------------------------------------
(* Engine.calculate_increase_rate (Engine.py lines 43-56) *)

\* self.base_increase_rate * gear_ratio / 2, in millionths
IncreaseRate(gear_ratio) == (base_increase_rate * gear_ratio) \div 2

calculate_increase_rate(gear_ratio) ==
    /\ current_gear_ratio' = Some(gear_ratio)
    /\ increase_rate' = IncreaseRate(gear_ratio)

----------------------------------------------------------------------------
(* Engine.update_rpm (Engine.py lines 58-111), as pure steps *)

\* lines 69-77: the clutch block, at clock reading t.  The first tick that
\* sees the flag only takes the timestamp; a later one compares
ClutchExpiredEarly(t) ==
    /\ clutched
    /\ clutched_timestamp # None
    /\ t - Val(clutched_timestamp) >= clutch_response_time
ClutchExpired(t) ==
    /\ clutched
    /\ clutched_timestamp # None
    /\ t - Val(clutched_timestamp) > clutch_response_time

ClutchThrottleKept == throttle
ClutchThrottle == IF clutched THEN 0 ELSE throttle

ClutchFlag(t) == IF ClutchExpired(t) THEN FALSE ELSE clutched

ClutchTimestampAlways(t) ==
    IF clutched_timestamp = None THEN Some(t)
    ELSE IF ClutchExpired(t) THEN None
    ELSE clutched_timestamp
ClutchTimestampKept(t) ==
    IF ~clutched THEN clutched_timestamp
    ELSE IF clutched_timestamp = None THEN Some(t)
    ELSE clutched_timestamp
ClutchTimestamp(t) ==
    IF ~clutched THEN clutched_timestamp
    ELSE IF clutched_timestamp = None THEN Some(t)
    ELSE IF ClutchExpired(t) THEN None
    ELSE clutched_timestamp

\* line 80: int(self.max_rpm * self.throttle * self.current_gear_ratio)
TargetRpmNoRatio(m, th, ratio) == (m * th) \div 10
TargetRpm(m, th, ratio) == (m * th * ratio) \div 10000

\* line 89: 1 - (current_rpm / max_rpm) ** 2, in thousandths
DecayFactorFlipped(rpm, m) ==
    LET q == (rpm * 1000) \div m IN (q * q) \div 1000 - 1000
DecayFactor(rpm, m) ==
    LET q == (rpm * 1000) \div m IN 1000 - (q * q) \div 1000

\* lines 84-93: the accelerating branch
Accelerate(rpm, target, rate, m) ==
    LET inc  == RoundAway((target - rpm) * rate, 1000)          \* thousandths of rpm
        step == RoundAway(inc * DecayFactor(rpm, m), 1000)      \* thousandths of rpm
        new  == rpm + RoundAway(step, 1000)
    IN  IF new > target THEN target ELSE new

\* lines 97-100: decay_rate, in whole rpm
DecayRateAlwaysSlow(rpm, target, rate, cl) ==
    RoundAway((rpm - target) * rate, 10000000)
DecayRateReversed(rpm, target, rate, cl) ==
    IF ~cl THEN RoundAway((target - rpm) * rate, 10000000)
           ELSE RoundAway((target - rpm) * rate, 1000000)
DecayRate(rpm, target, rate, cl) ==
    IF ~cl THEN RoundAway((rpm - target) * rate, 10000000)
           ELSE RoundAway((rpm - target) * rate, 1000000)

\* lines 96-103: the decay branch
DecayNoFloor(rpm, target, rate, cl) ==
    IF rpm > IdleRpm THEN rpm - DecayRate(rpm, target, rate, cl) ELSE rpm
Decay(rpm, target, rate, cl) ==
    IF rpm > IdleRpm
    THEN LET new == rpm - DecayRate(rpm, target, rate, cl)
         IN  IF new < IdleRpm THEN IdleRpm ELSE new
    ELSE rpm

\* lines 106-107
ClampMaxOff(rpm, m) == rpm
ClampMax(rpm, m) == IF rpm > m THEN m ELSE rpm

\* lines 82-107: the RPM after one tick
NextRpm(rpm, target, rate, m, cl) ==
    ClampMax(IF target > rpm THEN Accelerate(rpm, target, rate, m)
                             ELSE Decay(rpm, target, rate, cl), m)

----------------------------------------------------------------------------
(* Engine.calculate_current_torque (lines 135-160), thousandths of a N.m *)

TorqueCurve(rpm, mt, peak, m) ==
    IF rpm <= peak
    THEN (mt * 1000 * rpm) \div peak
    ELSE LET rpm_range     == m - peak
             rpm_post_peak == rpm - peak
             p == (rpm_post_peak * 1000) \div rpm_range
             decrease_factor == 1000 - (p * p) \div 1000
         IN  mt * decrease_factor

TorqueNoFloor(rpm, old, mt, peak, m) ==
    IF rpm = 0 THEN old ELSE TorqueCurve(rpm, mt, peak, m)
Torque(rpm, old, mt, peak, m) ==
    IF rpm = 0 THEN old
    ELSE Max(TorqueCurve(rpm, mt, peak, m), mt * 300)

(* Engine.calculate_current_hp (lines 113-133), thousandths of a hp *)

\* line 124: torque * 0.737562, thousandths of a ft-lb
TorqueFtLb(torque) ==
    ((torque \div 1000) * 737562 + ((torque % 1000) * 737562) \div 1000) \div 1000

HorsepowerNoClamp(rpm, torque, old, maxhp) ==
    IF rpm = 0 THEN old ELSE (TorqueFtLb(torque) * rpm) \div 5252
Horsepower(rpm, torque, old, maxhp) ==
    IF rpm = 0 THEN old
    ELSE LET hp == (TorqueFtLb(torque) * rpm) \div 5252
         IN  IF hp > maxhp * 1000 THEN maxhp * 1000 ELSE hp

----------------------------------------------------------------------------
(* Engine.update_rpm (lines 58-111): one call, dt ms after the previous    *)
(* read of the clock.  Only differences of clock readings are ever used    *)
(* (line 75), so while no timestamp is held the reading is rebased to 0.   *)
(* With current_gear_ratio None, line 80 raises TypeError after the clutch *)
(* block has run and before any RPM, torque or horsepower assignment.      *)

\* line 80: the operand self.current_gear_ratio; float * None raises TypeError
GearRatioOperandDefaulted ==
    IF current_gear_ratio = None THEN Some(1000) ELSE current_gear_ratio
GearRatioOperand == current_gear_ratio

update_rpm_hp_before_torque(dt) ==
    LET t      == now + dt
        th     == ClutchThrottle
        cl     == ClutchFlag(t)
        ts     == ClutchTimestamp(t)
        ratio  == GearRatioOperand
    IN  /\ throttle' = th
        /\ clutched' = cl
        /\ clutched_timestamp' = ts
        /\ now' = IF ts = None THEN 0 ELSE t
        /\ IF ratio = None
           THEN /\ outcome' = "TypeError"
                /\ UNCHANGED <<current_rpm, current_torque_nm, current_hp>>
           ELSE LET target == TargetRpm(max_rpm, th, Val(ratio))
                    rpm    == NextRpm(current_rpm, target, increase_rate, max_rpm, cl)
                IN  /\ current_rpm' = rpm
                    /\ current_hp' = Horsepower(rpm, current_torque_nm, current_hp,
                                                max_horsepower)
                    /\ current_torque_nm' = Torque(rpm, current_torque_nm, max_torque_nm,
                                                   peak_torque_rpm, max_rpm)
                    /\ outcome' = "returned"
        /\ UNCHANGED <<increase_rate, current_gear_ratio>>
update_rpm(dt) ==
    LET t      == now + dt
        th     == ClutchThrottle
        cl     == ClutchFlag(t)
        ts     == ClutchTimestamp(t)
        ratio  == GearRatioOperand
    IN  /\ throttle' = th
        /\ clutched' = cl
        /\ clutched_timestamp' = ts
        /\ now' = IF ts = None THEN 0 ELSE t
        /\ IF ratio = None
           THEN /\ outcome' = "TypeError"
                /\ UNCHANGED <<current_rpm, current_torque_nm, current_hp>>
           ELSE LET target == TargetRpm(max_rpm, th, Val(ratio))
                    rpm    == NextRpm(current_rpm, target, increase_rate, max_rpm, cl)
                    torque == Torque(rpm, current_torque_nm, max_torque_nm,
                                     peak_torque_rpm, max_rpm)
                IN  /\ current_rpm' = rpm
                    /\ current_torque_nm' = torque
                    /\ current_hp' = Horsepower(rpm, torque, current_hp, max_horsepower)
                    /\ outcome' = "returned"
        /\ UNCHANGED <<increase_rate, current_gear_ratio>>

\* the simulation data update_rpm leaves when it reads the clock dt ms after
\* the previous reading, in the order of engineLive
LiveAfter(dt) ==
    LET t  == now + dt
        th == ClutchThrottle
        cl == ClutchFlag(t)
        ts == ClutchTimestamp(t)
    IN  IF GearRatioOperand = None
        THEN <<current_hp, current_torque_nm, current_rpm, th, increase_rate,
               current_gear_ratio, cl, ts>>
        ELSE LET target == TargetRpm(max_rpm, th, Val(GearRatioOperand))
                 rpm    == NextRpm(current_rpm, target, increase_rate, max_rpm, cl)
                 torque == Torque(rpm, current_torque_nm, max_torque_nm,
                                  peak_torque_rpm, max_rpm)
             IN  <<Horsepower(rpm, torque, current_hp, max_horsepower), torque, rpm, th,
                   increase_rate, current_gear_ratio, cl, ts>>

----------------------------------------------------------------------------
(* Gearbox (Gearbox.py) *)

\* lines 15-20
ShiftUpGearNoGuard == current_gear + 1
ShiftUpGear == IF current_gear < Len(gear_ratios) THEN current_gear + 1 ELSE current_gear

\* lines 22-27
ShiftDownGear == IF current_gear > 1 THEN current_gear - 1 ELSE current_gear

\* lines 29-30
get_current_ratio == gear_ratios[current_gear]

\* lines 46-65 on a well-formed descriptor: diameter * 25.4 / 2 / 1000,
\* in tenths of a millimetre
WheelRadius(diameter) == diameter * 127

\* lines 70-82, in tenths of a km/h.  2 * 3.14159 * radius is the
\* circumference, kept in millimetres
get_speed(engine_rpm) ==
    LET circumference == (tire_radius_meters * 2 * 314159) \div 1000000
    IN  (engine_rpm * circumference * 60)
            \div ((final_drive_ratio * get_current_ratio) \div 10)

----------------------------------------------------------------------------
(* Gearbox.get_wheel_radius (Gearbox.py lines 32-68).  A string is the     *)
(* sequence of its characters.                                             *)

\* str.split(sep) (lines 48, 49): the pieces between the occurrences of sep
RECURSIVE split(_, _)
split(s, sep) ==
    IF \A i \in 1..Len(s) : s[i] # sep
    THEN <<s>>
    ELSE LET i == CHOOSE k \in 1..Len(s) :
                      s[k] = sep /\ \A j \in 1..(k - 1) : s[j] # sep
         IN  <<SubSeq(s, 1, i - 1)>> \o split(SubSeq(s, i + 1, Len(s)), sep)

\* int(str) (lines 52-54) on strings of digits, signs, blanks and other
\* characters: blanks at both ends are dropped, one sign may lead, and at
\* least one digit and only digits must follow; anything else is ValueError
Digits == {"0", "1", "2", "3", "4", "5", "6", "7", "8", "9"}
DigitValue(c) ==
    CASE c = "0" -> 0 [] c = "1" -> 1 [] c = "2" -> 2 [] c = "3" -> 3
      [] c = "4" -> 4 [] c = "5" -> 5 [] c = "6" -> 6 [] c = "7" -> 7
      [] c = "8" -> 8 [] c = "9" -> 9

strip(s) ==
    LET kept == {i \in 1..Len(s) : s[i] # " "}
    IN  IF kept = {} THEN <<>>
        ELSE SubSeq(s, CHOOSE i \in kept : \A j \in kept : i <= j,
                       CHOOSE i \in kept : \A j \in kept : i >= j)

Unsigned(s) == IF s # <<>> /\ s[1] \in {"-", "+"} THEN Tail(s) ELSE s

IsInt(s) ==
    LET u == Unsigned(strip(s))
    IN  Len(u) >= 1 /\ \A i \in 1..Len(u) : u[i] \in Digits

RECURSIVE DigitsValue(_)
DigitsValue(u) ==
    IF u = <<>> THEN 0
    ELSE DigitsValue(SubSeq(u, 1, Len(u) - 1)) * 10 + DigitValue(u[Len(u)])

int(s) ==
    LET t == strip(s)
    IN  IF t[1] = "-" THEN -DigitsValue(Unsigned(t)) ELSE DigitsValue(Unsigned(t))

\* lines 46-68: the radius in tenths of a millimetre, or None where the
\* method raises ValueError (the unpacking of lines 48 and 49 needs exactly
\* two pieces)
get_wheel_radius_with_sidewall(descriptor) ==
    LET parts == split(descriptor, "/")
        rest  == split(parts[2], "R")
    IN  IF Len(parts) # 2 \/ Len(rest) # 2 THEN None
        ELSE IF ~(IsInt(parts[1]) /\ IsInt(rest[1]) /\ IsInt(rest[2])) THEN None
        ELSE Some(int(rest[2]) * 127 + (int(parts[1]) * int(rest[1])) \div 10)
get_wheel_radius(descriptor) ==
    LET parts == split(descriptor, "/")
        rest  == split(parts[2], "R")
    IN  IF Len(parts) # 2 \/ Len(rest) # 2 THEN None
        ELSE IF ~(IsInt(parts[1]) /\ IsInt(rest[1]) /\ IsInt(rest[2])) THEN None
        ELSE Some(WheelRadius(int(rest[2])))

----------------------------------------------------------------------------
(* State after construction: Engine.__init__ (Engine.py lines 21-41) and   *)
(* Gearbox.__init__ (Gearbox.py lines 10-13)                               *)

EngineInit(e) ==
    /\ max_rpm = e.max_rpm
    /\ max_horsepower = e.max_horsepower
    /\ max_torque_nm = e.max_torque_nm
    /\ peak_torque_rpm = e.peak_torque_rpm
    /\ clutch_response_time = e.clutch_response_time
    /\ current_hp = 0
    /\ current_torque_nm = 0
    /\ current_rpm = IdleRpm
    /\ throttle = 0
    /\ increase_rate = 0
    /\ current_gear_ratio = None
    /\ clutched = FALSE
    /\ clutched_timestamp = None

GearboxInit(ratios, diameter, final_drive) ==
    /\ gear_ratios = ratios
    /\ current_gear = 1
    /\ tire_radius_meters = WheelRadius(diameter)
    /\ final_drive_ratio = final_drive

Init ==
    /\ \E e \in Engines : EngineInit(e)
    /\ GearboxInit(GearRatios, MainRimDiameter, MainFinalDrive)
    /\ now = 0
    /\ outcome = "none"
    /\ pc = "api"
    /\ slider_value = 0
    /\ speed_kph = 0
    /\ tire_size = MainTireSize

----------------------------------------------------------------------------
(* The operations a caller of the two classes has *)

\* engine.throttle = v (as main.py lines 126, 132 do)
SetThrottle(v) ==
    /\ throttle' = v
    /\ UNCHANGED <<engineStatic, current_hp, current_torque_nm, current_rpm,
                   increase_rate, current_gear_ratio, clutched, clutched_timestamp,
                   gearboxVars, now, outcome, mainVars>>

\* engine.calculate_increase_rate(gearbox.get_current_ratio()) (as main.py line 114);
\* on a gearbox whose ratio list is too short for current_gear, Gearbox.py
\* line 30 raises IndexError before the engine is called
PushRatio ==
    IF current_gear > Len(gear_ratios)
    THEN /\ outcome' = "IndexError"
         /\ UNCHANGED <<engineStatic, engineLive, gearboxVars, now, mainVars>>
    ELSE /\ calculate_increase_rate(get_current_ratio)
         /\ UNCHANGED <<engineStatic, current_hp, current_torque_nm, current_rpm,
                        throttle, clutched, clutched_timestamp,
                        gearboxVars, now, outcome, mainVars>>

\* engine.clutched = True (the public flag of Engine.py line 40)
EngageClutch ==
    /\ clutched' = TRUE
    /\ UNCHANGED <<engineStatic, current_hp, current_torque_nm, current_rpm,
                   throttle, increase_rate, current_gear_ratio, clutched_timestamp,
                   gearboxVars, now, outcome, mainVars>>

\* engine.update_rpm()
Tick(dt) ==
    /\ update_rpm(dt)
    /\ UNCHANGED <<engineStatic, gearboxVars, mainVars>>

\* gearbox.shift_up()
shift_up_and_push ==
    /\ current_gear' = ShiftUpGear
    /\ IF current_gear' > Len(gear_ratios)
       THEN UNCHANGED <<current_gear_ratio, increase_rate>>
       ELSE calculate_increase_rate(gear_ratios[current_gear'])
    /\ UNCHANGED <<engineStatic, current_hp, current_torque_nm, current_rpm,
                   throttle, clutched, clutched_timestamp,
                   gear_ratios, tire_radius_meters, final_drive_ratio,
                   now, outcome, mainVars>>
shift_up ==
    /\ current_gear' = ShiftUpGear
    /\ UNCHANGED <<engineStatic, engineLive, gear_ratios, tire_radius_meters,
                   final_drive_ratio, now, outcome, mainVars>>

\* gearbox.shift_down()
shift_down ==
    /\ current_gear' = ShiftDownGear
    /\ UNCHANGED <<engineStatic, engineLive, gear_ratios, tire_radius_meters,
                   final_drive_ratio, now, outcome, mainVars>>

Next ==
    \/ \E v \in ThrottleSet : SetThrottle(v)
    \/ PushRatio
    \/ EngageClutch
    \/ \E dt \in 0..MaxDt : Tick(dt)
    \/ shift_up
    \/ shift_down

Spec == Init /\ [][Next]_vars

TickStep == \E dt \in 0..MaxDt : Tick(dt)

\* the callers of the engine alone (the gearbox stays in first gear), with
\* update_rpm called again and again while the clock advances
LiveNext ==
    \/ \E v \in ThrottleSet : SetThrottle(v)
    \/ PushRatio
    \/ EngageClutch
    \/ \E dt \in 0..MaxDt : Tick(dt)

LiveSpec == Init /\ [][LiveNext]_vars /\ WF_vars(\E dt \in 1..MaxDt : Tick(dt))

----------------------------------------------------------------------------
(* main() of main.py from line 114 on, with the engine and the gearbox of  *)
(* lines 101 and 103 constructed.  (Line 101 as written passes 16 of the   *)
(* 17 arguments Engine.__init__ requires; clutch_response_time is the one  *)
(* left out, and main never engages the clutch.)                           *)

MainInit ==
    /\ EngineInit(MainEngine)
    /\ GearboxInit(MainGearRatios, MainRimDiameter, MainFinalDrive)
    /\ now = 0
    /\ outcome = "none"
    /\ pc = "startup"
    /\ slider_value = 0
    /\ speed_kph = 0
    /\ tire_size = MainTireSize

\* line 114
main_startup ==
    /\ pc = "startup"
    /\ calculate_increase_rate(get_current_ratio)
    /\ pc' = "events"
    /\ UNCHANGED <<engineStatic, current_hp, current_torque_nm, current_rpm,
                   throttle, clutched, clutched_timestamp,
                   gearboxVars, now, outcome, slider_value, speed_kph, tire_size>>

\* lines 118-120: pygame.QUIT
main_quit ==
    /\ pc = "events"
    /\ pc' = "quit"
    /\ UNCHANGED <<engineStatic, engineLive, gearboxVars, now, outcome,
                   slider_value, speed_kph, tire_size>>

\* lines 121-132: a press or drag with the pointer at v; outside the slider
\* (lines 123, 129) nothing is assigned
main_mouse(v) ==
    /\ pc = "events"
    /\ 0 <= v /\ v <= 10
    /\ slider_value' = Min(Max(v, 0), 10)
    /\ throttle' = slider_value'
    /\ UNCHANGED <<engineStatic, current_hp, current_torque_nm, current_rpm,
                   increase_rate, current_gear_ratio, clutched, clutched_timestamp,
                   gearboxVars, now, outcome, pc, speed_kph, tire_size>>

\* lines 134-136: K_UP
main_key_up_no_push ==
    /\ pc = "events"
    /\ current_gear' = ShiftUpGear
    /\ UNCHANGED <<engineStatic, engineLive, gear_ratios, tire_radius_meters,
                   final_drive_ratio, now, outcome, mainVars>>
main_key_up ==
    /\ pc = "events"
    /\ current_gear' = ShiftUpGear
    /\ calculate_increase_rate(gear_ratios[current_gear'])
    /\ UNCHANGED <<engineStatic, current_hp, current_torque_nm, current_rpm,
                   throttle, clutched, clutched_timestamp,
                   gear_ratios, tire_radius_meters, final_drive_ratio,
                   now, outcome, mainVars>>

\* lines 137-139: K_DOWN
main_key_down ==
    /\ pc = "events"
    /\ current_gear' = ShiftDownGear
    /\ calculate_increase_rate(gear_ratios[current_gear'])
    /\ UNCHANGED <<engineStatic, current_hp, current_torque_nm, current_rpm,
                   throttle, clutched, clutched_timestamp,
                   gear_ratios, tire_radius_meters, final_drive_ratio,
                   now, outcome, mainVars>>

\* line 117: the event queue is drained
main_events_done ==
    /\ pc = "events"
    /\ pc' = "update_rpm"
    /\ UNCHANGED <<engineStatic, engineLive, gearboxVars, now, outcome,
                   slider_value, speed_kph, tire_size>>

\* line 141
main_update_rpm_again(dt) ==
    /\ pc = "update_rpm"
    /\ update_rpm(dt)
    /\ pc' \in {"update_rpm", "get_speed"}
    /\ UNCHANGED <<engineStatic, gearboxVars, slider_value, speed_kph, tire_size>>
main_update_rpm(dt) ==
    /\ pc = "update_rpm"
    /\ update_rpm(dt)
    /\ pc' = "get_speed"
    /\ UNCHANGED <<engineStatic, gearboxVars, slider_value, speed_kph, tire_size>>

\* line 144; lines 146-170 draw and wait for the next frame
main_get_speed ==
    /\ pc = "get_speed"
    /\ speed_kph' = get_speed(current_rpm)
    /\ pc' = "events"
    /\ UNCHANGED <<engineStatic, engineLive, gearboxVars, now, outcome, slider_value,
                   tire_size>>

MainNext ==
    \/ main_startup
    \/ main_quit
    \/ \E v \in SliderSet : main_mouse(v)
    \/ main_key_up
    \/ main_key_down
    \/ main_events_done
    \/ \E dt \in 0..MaxDt : main_update_rpm(dt)
    \/ main_get_speed

MainSpec == MainInit /\ [][MainNext]_vars

----------------------------------------------------------------------------
(* Repeated ticking from idle: an engine just constructed, one ratio       *)
(* pushed, a throttle written once, the clutch never engaged, and then     *)
(* only update_rpm calls.  The engines are those whose max_rpm is at least *)
(* the idle RPM they are constructed at.                                   *)

ConvInit ==
    /\ \E e \in {x \in Engines : x.max_rpm >= IdleRpm}, th \in 0..10, g \in 1..Len(GearRatios) :
          /\ max_rpm = e.max_rpm
          /\ max_horsepower = e.max_horsepower
          /\ max_torque_nm = e.max_torque_nm
          /\ peak_torque_rpm = e.peak_torque_rpm
          /\ clutch_response_time = e.clutch_response_time
          /\ throttle = th
          /\ current_gear = g
          /\ current_gear_ratio = Some(GearRatios[g])
          /\ increase_rate = IncreaseRate(GearRatios[g])
    /\ current_hp = 0
    /\ current_torque_nm = 0
    /\ current_rpm = IdleRpm
    /\ clutched = FALSE
    /\ clutched_timestamp = None
    /\ gear_ratios = GearRatios
    /\ tire_radius_meters = WheelRadius(MainRimDiameter)
    /\ final_drive_ratio = MainFinalDrive
    /\ now = 0
    /\ outcome = "none"
    /\ pc = "api"
    /\ slider_value = 0
    /\ speed_kph = 0
    /\ tire_size = MainTireSize

ConvNext == \E dt \in 0..MaxDt : Tick(dt)

ConvSpec == ConvInit /\ [][ConvNext]_vars /\ WF_vars(ConvNext)

----------------------------------------------------------------------------
(* Objects built from any specification.  Engine.__init__ (Engine.py lines *)
(* 21-41) and Gearbox.__init__ (Gearbox.py lines 10-13) store what they    *)
(* are handed, so the engines and ratio lists here include those the       *)
(* constructors are not meant to accept; the public methods are then       *)
(* called one by one, and a call that raises leaves the exception's name   *)
(* in outcome.  With max_rpm >= 0, update_rpm itself divides by max_rpm    *)
(* only in the accelerating branch (not taken when max_rpm = 0, the target *)
(* being 0) and calls calculate_current_torque with an RPM for which that  *)
(* method's divisors are non-zero or which is 0.                           *)

BuildEngines ==
    { [max_rpm |-> 0, max_horsepower |-> 12, max_torque_nm |-> 120,
       peak_torque_rpm |-> 0, clutch_response_time |-> 1],
      [max_rpm |-> 800, max_horsepower |-> 12, max_torque_nm |-> 120,
       peak_torque_rpm |-> 900, clutch_response_time |-> 1],
      [max_rpm |-> 1000, max_horsepower |-> 12, max_torque_nm |-> 120,
       peak_torque_rpm |-> 800, clutch_response_time |-> 1] }

BuildGearRatios == { <<>>, <<3545, 850>> }

BuildInit ==
    /\ \E e \in BuildEngines : EngineInit(e)
    /\ \E ratios \in BuildGearRatios :
          GearboxInit(ratios, MainRimDiameter, MainFinalDrive)
    /\ now = 0
    /\ outcome = "none"
    /\ pc = "api"
    /\ slider_value = 0
    /\ speed_kph = 0
    /\ tire_size = MainTireSize

\* gearbox.get_current_ratio() (Gearbox.py lines 29-30), the value dropped
get_current_ratio_call ==
    /\ outcome' = IF current_gear > Len(gear_ratios) THEN "IndexError" ELSE "returned"
    /\ UNCHANGED <<engineStatic, engineLive, gearboxVars, now, mainVars>>

\* gearbox.get_speed(engine.current_rpm) (Gearbox.py lines 70-82), the value
\* dropped; line 80 reads the current ratio first
get_speed_call ==
    /\ outcome' = IF current_gear > Len(gear_ratios) THEN "IndexError" ELSE "returned"
    /\ UNCHANGED <<engineStatic, engineLive, gearboxVars, now, mainVars>>

\* engine.calculate_current_torque() (Engine.py lines 135-160) called by
\* itself: line 143 returns at RPM 0 without assigning; line 147 divides by
\* peak_torque_rpm, line 153 by max_rpm - peak_torque_rpm
calculate_current_torque_call ==
    /\ IF current_rpm # 0 /\ (IF current_rpm <= peak_torque_rpm
                               THEN peak_torque_rpm = 0
                               ELSE max_rpm = peak_torque_rpm)
       THEN outcome' = "ZeroDivisionError" /\ UNCHANGED current_torque_nm
       ELSE /\ outcome' = "returned"
            /\ current_torque_nm' = Torque(current_rpm, current_torque_nm,
                                           max_torque_nm, peak_torque_rpm, max_rpm)
    /\ UNCHANGED <<engineStatic, current_hp, current_rpm, throttle, increase_rate,
                   current_gear_ratio, clutched, clutched_timestamp,
                   gearboxVars, now, mainVars>>

BuildNext ==
    \/ \E v \in ThrottleSet : SetThrottle(v)
    \/ PushRatio
    \/ \E dt \in 0..MaxDt : Tick(dt)
    \/ shift_up
    \/ shift_down
    \/ get_current_ratio_call
    \/ get_speed_call
    \/ calculate_current_torque_call

BuildSpec == BuildInit /\ [][BuildNext]_vars

----------------------------------------------------------------------------
(* Gearbox construction from a tire-size descriptor: Gearbox.__init__      *)
(* (Gearbox.py lines 10-13) called once with the descriptor tire_size.     *)
(* Before the call, and after a call that raised, there is no gearbox: pc  *)
(* is "new" or "aborted" and the gearbox fields hold nothing.              *)

Gearbox_init(ratios, final_drive) ==
    /\ pc = "new"
    /\ LET radius == get_wheel_radius(tire_size)
       IN  IF radius = None
           THEN /\ outcome' = "ValueError"
                /\ pc' = "aborted"
                /\ UNCHANGED gearboxVars
           ELSE /\ gear_ratios' = ratios
                /\ current_gear' = 1
                /\ tire_radius_meters' = Val(radius)
                /\ final_drive_ratio' = final_drive
                /\ outcome' = "returned"
                /\ pc' = "api"
    /\ UNCHANGED <<engineStatic, engineLive, now, slider_value, speed_kph, tire_size>>

TireInit ==
    /\ EngineInit(MainEngine)
    /\ gear_ratios = <<>>
    /\ current_gear = 0
    /\ tire_radius_meters = 0
    /\ final_drive_ratio = 0
    /\ now = 0
    /\ outcome = "none"
    /\ pc = "new"
    /\ slider_value = 0
    /\ speed_kph = 0
    /\ tire_size \in Descriptors

TireNext == Gearbox_init(MainGearRatios, MainFinalDrive)

TireSpec == TireInit /\ [][TireNext]_vars

----------------------------------------------------------------------------
(* The claims *)

\* C1, as claimed: for every engine with max_rpm > 0 and peak_torque_rpm <=
\* max_rpm, current_rpm >= 700 in every reachable state.
C1_IdleFloorAnyEngine ==
    (max_rpm > 0 /\ peak_torque_rpm <= max_rpm) => current_rpm >= IdleRpm

\* C1, amended: for every engine with max_rpm >= 700 (and peak_torque_rpm <=
\* max_rpm), current_rpm >= 700 in every reachable state.
C1_IdleFloor ==
    (max_rpm >= IdleRpm /\ peak_torque_rpm <= max_rpm) => current_rpm >= IdleRpm

\* a tick has returned, the clutch is engaged and the RPM is so little above
\* idle that the next decay step lands below 700 before the clamp
C1_Witness ==
    /\ max_rpm >= IdleRpm
    /\ outcome = "returned"
    /\ clutched
    /\ current_rpm > IdleRpm
    /\ current_rpm - RoundAway(current_rpm * increase_rate, 1000000) < IdleRpm

\* C2: after every update_rpm call that returns, current_rpm <= max_rpm.
C2_RpmCeiling == outcome = "returned" => current_rpm <= max_rpm

\* update_rpm has cut the RPM of an engine whose max_rpm is below idle
C2_Witness ==
    /\ outcome = "returned"
    /\ max_rpm < IdleRpm
    /\ current_rpm = max_rpm

\* C3: on a gearbox with a non-empty ratio list, 1 <= current_gear <=
\* len(gear_ratios) always; shift_down at gear 1 and shift_up at the top gear
\* leave current_gear unchanged; every other shift moves it by exactly 1.
C3_GearBounds ==
    /\ [](Len(gear_ratios) >= 1 =>
             (1 <= current_gear /\ current_gear <= Len(gear_ratios)))
    /\ [][(shift_up /\ current_gear = Len(gear_ratios)) => current_gear' = current_gear]_vars
    /\ [][(shift_up /\ current_gear < Len(gear_ratios)) => current_gear' = current_gear + 1]_vars
    /\ [][(shift_down /\ current_gear = 1) => current_gear' = current_gear]_vars
    /\ [][(shift_down /\ current_gear > 1) => current_gear' = current_gear - 1]_vars

\* the top gear has been reached by shifting
C3_Witness == Len(gear_ratios) > 1 /\ current_gear = Len(gear_ratios)

\* the limit C4 names: min(max_rpm, max_rpm * throttle * ratio)
ClaimedLimit ==
    Min(max_rpm, (max_rpm * throttle * Val(current_gear_ratio)) \div 10000)

\* C4, as claimed: ticking from idle, current_rpm never decreases, never
\* exceeds max_rpm once a tick has returned, and eventually stays within the
\* tolerance of min(max_rpm, max_rpm * throttle * ratio).
C4_ConvergesToClaimedLimit ==
    /\ [][current_rpm' >= current_rpm]_vars
    /\ [](outcome = "returned" => current_rpm <= max_rpm)
    /\ <>[](Abs(current_rpm - ClaimedLimit) <= Tol)

\* C4, amended: for an engine with max_rpm >= 700, ticking from idle,
\* current_rpm never decreases, never exceeds max_rpm, and eventually stays
\* within the tolerance of max(700, min(max_rpm, floor(max_rpm * throttle *
\* ratio))).
C4_Convergence ==
    /\ [][max_rpm >= IdleRpm => current_rpm' >= current_rpm]_vars
    /\ [](max_rpm >= IdleRpm => current_rpm <= max_rpm)
    /\ <>[](max_rpm >= IdleRpm =>
               Abs(current_rpm - Max(IdleRpm, ClaimedLimit)) <= Tol)

\* ticking has brought the RPM from idle up to a target strictly between
\* idle and max_rpm
C4_Witness ==
    /\ outcome = "returned"
    /\ max_rpm >= IdleRpm
    /\ ClaimedLimit > IdleRpm
    /\ ClaimedLimit < max_rpm
    /\ current_rpm = ClaimedLimit

DecayedBy(divisor) ==
    Min(max_rpm, Max(IdleRpm, current_rpm - RoundAway(current_rpm * increase_rate, divisor)))

\* C6, as claimed: every tick that begins with the clutch flag true (and a
\* gear ratio set) forces throttle to 0 and, when current_rpm > 700, reduces
\* current_rpm by current_rpm * increase_rate * 1.0 before the clamps.
C6_ClutchDecayEveryTick ==
    [][\A dt \in 0..MaxDt :
          (Tick(dt) /\ clutched /\ current_gear_ratio # None) =>
              /\ throttle' = 0
              /\ current_rpm > IdleRpm => current_rpm' = DecayedBy(1000000)]_vars

\* C6, amended: every tick that begins with the clutch flag true (and a gear
\* ratio set) forces throttle to 0 and, when current_rpm > 700, reduces
\* current_rpm by current_rpm * increase_rate * 1.0 if the flag is still true
\* after the tick's dwell check, and by current_rpm * increase_rate * 0.1 in
\* the tick whose dwell check clears the flag, before the clamps.
C6_ClutchDecay ==
    [][\A dt \in 0..MaxDt :
          (Tick(dt) /\ clutched /\ current_gear_ratio # None) =>
              /\ throttle' = 0
              /\ current_rpm > IdleRpm =>
                    current_rpm' = DecayedBy(IF clutched' THEN 1000000 ELSE 10000000)]_vars

\* a tick that compared the dwell time has kept the flag and left the RPM
\* above idle: it decayed an RPM above idle at the clutched rate
C6_Witness ==
    /\ outcome = "returned"
    /\ clutched
    /\ clutched_timestamp # None
    /\ now > Val(clutched_timestamp)
    /\ current_rpm > IdleRpm

C8_TorqueRange ==
    (outcome = "returned" /\ 0 < peak_torque_rpm /\ peak_torque_rpm <= max_rpm) =>
        /\ 300 * max_torque_nm <= current_torque_nm
        /\ current_torque_nm <= 1000 * max_torque_nm

\* the torque curve itself is below 30% of max_torque_nm and the floor holds
C8_Witness ==
    /\ outcome = "returned"
    /\ current_rpm > peak_torque_rpm
    /\ max_torque_nm * (1000 - (((current_rpm - peak_torque_rpm) * 1000)
                                   \div (max_rpm - peak_torque_rpm)) ^ 2 \div 1000)
           < 300 * max_torque_nm
    /\ current_torque_nm = 300 * max_torque_nm

\* C9: in every reachable state 0 <= current_hp <= max_horsepower.
C9_HpCeiling ==
    /\ 0 <= current_hp
    /\ current_hp <= 1000 * max_horsepower

\* torque * 0.737562 * rpm / 5252 is above max_horsepower and current_hp is
\* max_horsepower
C9_Witness ==
    /\ outcome = "returned"
    /\ (((current_torque_nm * 737) \div 1000) * current_rpm) \div 5252
           > 1000 * max_horsepower
    /\ current_hp = 1000 * max_horsepower

\* C10: update_rpm on an engine whose current_gear_ratio was never set ends
\* in an error and leaves current_rpm, current_torque_nm and current_hp as
\* they were.
C10_UnsetRatioRejected ==
    [][(TickStep /\ current_gear_ratio = None) =>
          /\ outcome' = "TypeError"
          /\ UNCHANGED <<current_rpm, current_torque_nm, current_hp>>]_vars

\* such a call has ended in the error, with the fields of construction
C10_Witness ==
    /\ outcome = "TypeError"
    /\ current_gear_ratio = None
    /\ current_rpm = IdleRpm
    /\ current_torque_nm = 0
    /\ current_hp = 0

\* C11, as claimed: no engine with max_rpm <= 0, peak_torque_rpm <= 0 or
\* peak_torque_rpm > max_rpm and no gearbox with an empty ratio list is ever
\* constructed, and no later call ends in a division-by-zero or index fault.
C11_FailFastConstruction ==
    /\ max_rpm > 0
    /\ peak_torque_rpm > 0
    /\ peak_torque_rpm <= max_rpm
    /\ Len(gear_ratios) >= 1
    /\ outcome \notin {"ZeroDivisionError", "IndexError"}

\* an engine constructed with max_rpm = 0 has divided by zero in a later call
C11_Witness ==
    /\ max_rpm <= 0
    /\ outcome = "ZeroDivisionError"

\* a descriptor of three integer segments around one '/' and one 'R', and
\* the integer of its last segment
WellFormedAt(s, i, j) ==
    /\ i < j
    /\ s[i] = "/"
    /\ s[j] = "R"
    /\ IsInt(SubSeq(s, 1, i - 1))
    /\ IsInt(SubSeq(s, i + 1, j - 1))
    /\ IsInt(SubSeq(s, j + 1, Len(s)))
WellFormed(s) == \E i, j \in 1..Len(s) : WellFormedAt(s, i, j)

\* C12: Gearbox construction from a descriptor that is not three integer
\* segments around one '/' and one 'R' ends in the format error with no
\* gearbox and no tire radius; from a well-formed descriptor <w>/<a>R<d> it
\* succeeds with tire_radius_meters = d * 25.4 / 2 / 1000, whatever w and a.
C12_TireDescriptor ==
    pc # "new" =>
        IF WellFormed(tire_size)
        THEN /\ pc = "api"
             /\ \A i, j \in 1..Len(tire_size) :
                    WellFormedAt(tire_size, i, j) =>
                        2 * tire_radius_meters
                            = int(SubSeq(tire_size, j + 1, Len(tire_size))) * 254
        ELSE /\ pc = "aborted"
             /\ outcome = "ValueError"
             /\ gearboxVars = <<<<>>, 0, 0, 0>>

\* a gearbox has been constructed from a descriptor whose diameter segment
\* carries a blank, with the radius of a 6-inch rim
C12_Witness ==
    /\ pc = "api"
    /\ tire_size = <<"1", "/", "1", "R", " ", "6">>
    /\ tire_radius_meters = 762

\* C13: after every update_rpm call that returns, current_torque_nm is the
\* torque-curve value (floored at 30% of max_torque_nm) for the RPM that call
\* produced, and current_hp = min(max_horsepower, current_torque_nm *
\* 0.737562 * current_rpm / 5252) with that new torque and new RPM.
C13_FreshTorqueAndHp ==
    [][(TickStep /\ outcome' = "returned") =>
          /\ current_torque_nm' =
                 Max(TorqueCurve(current_rpm', max_torque_nm, peak_torque_rpm, max_rpm),
                     300 * max_torque_nm)
          /\ current_hp' =
                 Min(1000 * max_horsepower,
                     (TorqueFtLb(current_torque_nm') * current_rpm') \div 5252)]_vars

\* a tick has left the RPM beyond the torque peak, where the torque falls
\* from tick to tick, with the horsepower of that RPM and torque below the cap
C13_Witness ==
    /\ outcome = "returned"
    /\ current_rpm > peak_torque_rpm
    /\ current_torque_nm < 1000 * max_torque_nm
    /\ current_hp = (TorqueFtLb(current_torque_nm) * current_rpm) \div 5252
    /\ current_hp < 1000 * max_horsepower

\* the target of the tick that begins in this state (line 80, after the
\* clutch block has set the throttle)
TickTarget == TargetRpm(max_rpm, ClutchThrottle, Val(current_gear_ratio))

\* C14, as claimed: in every tick whose target_rpm is greater than the
\* current_rpm it starts with, current_rpm ends >= its starting value and
\* <= target_rpm.
C14_NoOvershootAnyStart ==
    [][(TickStep /\ current_gear_ratio # None /\ TickTarget > current_rpm) =>
          /\ current_rpm' >= current_rpm
          /\ current_rpm' <= TickTarget]_vars

\* C14, amended: in every tick whose target_rpm is greater than the
\* current_rpm it starts with, and whose starting current_rpm is <= max_rpm,
\* current_rpm ends >= its starting value and <= target_rpm.
C14_NoOvershoot ==
    [][(TickStep /\ current_gear_ratio # None /\ TickTarget > current_rpm
                /\ current_rpm <= max_rpm) =>
          /\ current_rpm' >= current_rpm
          /\ current_rpm' <= TickTarget]_vars

\* ticks have raised the RPM above idle and it is still below the target
C14_Witness ==
    /\ outcome = "returned"
    /\ current_gear_ratio # None
    /\ ~clutched
    /\ current_rpm > IdleRpm
    /\ current_rpm < max_rpm
    /\ current_rpm < TickTarget

\* C15: a get_speed or get_current_ratio call changes no field of the
\* gearbox or the engine; a step that changes current_gear (a shift) changes
\* no other gearbox field and no engine field, and the engine's
\* current_gear_ratio and increase_rate change only when
\* calculate_increase_rate is called.
C15_DrivetrainFrames ==
    /\ [][(get_speed_call \/ get_current_ratio_call) =>
              UNCHANGED <<engineStatic, engineLive, gearboxVars>>]_vars
    /\ [][(shift_up \/ shift_down \/ current_gear' # current_gear) =>
              UNCHANGED <<gear_ratios, final_drive_ratio, tire_radius_meters,
                          engineStatic, engineLive>>]_vars
    /\ [][(current_gear_ratio' # current_gear_ratio \/ increase_rate' # increase_rate) =>
              PushRatio]_vars

\* the gearbox has been shifted out of the gear whose ratio the engine holds
C15_Witness ==
    /\ Len(gear_ratios) >= 2
    /\ current_gear = 2
    /\ current_gear_ratio = Some(gear_ratios[1])
    /\ increase_rate = IncreaseRate(gear_ratios[1])

\* C16: with the caller only ever setting the clutch flag to true, the
\* clutch timestamp is present only if the flag is true; a tick that clears
\* the flag also resets the timestamp to absent, and the first tick of an
\* engagement (flag true, no timestamp) takes a new timestamp at its own
\* reading of the clock.
C16_ClutchTimestamp ==
    /\ [](clutched_timestamp # None => clutched)
    /\ [][(TickStep /\ clutched /\ ~clutched') => clutched_timestamp' = None]_vars
    /\ [][\A dt \in 0..MaxDt :
             (Tick(dt) /\ clutched /\ clutched_timestamp = None) =>
                 (clutched' /\ clutched_timestamp' = Some(now + dt))]_vars

\* a dwell is under way in a state a tick left: the timestamp is held, the
\* flag is true and the elapsed time is still short of clutch_response_time
C16_Witness ==
    /\ outcome = "returned"
    /\ clutched
    /\ clutched_timestamp # None
    /\ now - Val(clutched_timestamp) >= 1
    /\ now - Val(clutched_timestamp) < clutch_response_time

\* C17, as claimed: from every reachable state, the clutch flag true or
\* false, two update_rpm calls on engines in that same state leave the same
\* simulation data, whatever the clock reads for each of them.
C17_DeterministicWhateverTheClock ==
    [][\A d1, d2 \in 0..MaxDt : Tick(d1) => engineLive' = LiveAfter(d2)]_vars

\* C17, amended: two update_rpm calls on engines in the same state leave the
\* same simulation data if both read the same value of the clock, and,
\* when the clutch flag is false at the start of the tick, whatever the
\* clock reads for each of them.
C17_Determinism ==
    /\ [][\A d1 \in 0..MaxDt : Tick(d1) => engineLive' = LiveAfter(d1)]_vars
    /\ [][\A d1, d2 \in 0..MaxDt :
             (Tick(d1) /\ ~clutched) => engineLive' = LiveAfter(d2)]_vars

\* ticks with the clutch flag false have raised the RPM, torque and
\* horsepower of an engine under throttle
C17_Witness ==
    /\ outcome = "returned"
    /\ ~clutched
    /\ clutched_timestamp = None
    /\ throttle > 0
    /\ current_rpm > IdleRpm
    /\ current_hp > 0

C19_ThrottleNotRestored ==
    /\ [][(TickStep /\ clutched) => throttle' = 0]_vars
    /\ [][(TickStep /\ throttle = 0) => throttle' = 0]_vars
    /\ [][(throttle' # throttle /\ throttle' # 0) => \E v \in ThrottleSet : SetThrottle(v)]_vars

\* the caller has written a throttle during a dwell: the flag is true, the
\* timestamp is held and throttle is not 0
C19_Witness ==
    /\ clutched
    /\ clutched_timestamp # None
    /\ outcome = "returned"
    /\ throttle > 0

\* C20, as claimed: in every tick whose target_rpm is <= the current_rpm it
\* starts with and whose increase_rate is <= 1, current_rpm ends <= its
\* starting value and, when that was >= 700, >= max(700, target_rpm); a tick
\* started at exactly 700 leaves current_rpm unchanged.
C20_NoUndershootAnyStart ==
    [][(TickStep /\ current_gear_ratio # None /\ TickTarget <= current_rpm
                /\ increase_rate <= 1000000) =>
          /\ current_rpm' <= current_rpm
          /\ current_rpm >= IdleRpm => current_rpm' >= Max(IdleRpm, TickTarget)
          /\ current_rpm = IdleRpm => current_rpm' = IdleRpm]_vars

\* C20, amended: the same for every tick whose starting current_rpm is
\* also <= max_rpm.
C20_NoUndershoot ==
    [][(TickStep /\ current_gear_ratio # None /\ TickTarget <= current_rpm
                /\ increase_rate <= 1000000 /\ current_rpm <= max_rpm) =>
          /\ current_rpm' <= current_rpm
          /\ current_rpm >= IdleRpm => current_rpm' >= Max(IdleRpm, TickTarget)
          /\ current_rpm = IdleRpm => current_rpm' = IdleRpm]_vars

\* the throttle is 0 with the clutch flag false and the RPM is coming down
\* from above idle
C20_Witness ==
    /\ outcome = "returned"
    /\ current_gear_ratio # None
    /\ ~clutched
    /\ throttle = 0
    /\ current_rpm > IdleRpm
    /\ current_rpm < max_rpm
    /\ current_rpm - DecayRate(current_rpm, 0, increase_rate, FALSE) > IdleRpm

====
